---- MODULE Spec2Model ----
(***************************************************************************)
(* State-machine model of scripts/etl/openaq_etl.py (class OpenAQETL).     *)
(*                                                                         *)
(* A Python float is modelled as an exact rational <<num, den>> in lowest  *)
(* terms with den > 0, and Python's None as the empty tuple <<>>.  For the *)
(* integer-valued measurements used here the quotient sum/len and its      *)
(* rounding to two decimals are decided exactly by the rational.           *)
(***************************************************************************)
EXTENDS Integers, Sequences, FiniteSets, TLC

VARIABLES
    pc,            \* position of run_etl: idle, loop, pm25, no2, check, done
    countries,     \* run_etl's argument `countries`
    i,             \* 1-based position of the for loop in `countries`
    country_code,  \* loop variable of run_etl
    successful,    \* run_etl local counter
    failed,        \* run_etl local counter
    air_quality,   \* `result` of fetch_country_air_quality / `air_quality` of run_etl
    pm25_data,     \* outcome of the PM2.5 fetch inside fetch_country_air_quality
    no2_data,      \* outcome of the NO2 fetch inside fetch_country_air_quality
    response,      \* outcome of requests.patch in the current iteration
    patch,         \* PATCH request sent in the current iteration (0 or 1 element)
    dest,          \* rows of climate_inequality_regions, keyed by region_code
    clock,         \* datetime.utcnow() as a logical time
    log,           \* country codes printed by "[code] Processing ..." so far
    run,           \* number of the run_etl invocation (1 or 2)
    env,           \* the measurements and update outcomes of a repeatable environment
    first,         \* what the first run left behind (summary and rows)
    values,        \* argument of a direct _calculate_average call
    average        \* its return value

vars == <<pc, countries, i, country_code, successful, failed, air_quality,
          pm25_data, no2_data, response, patch, dest, clock, log, run, env,
          first, values, average>>

-----------------------------------------------------------------------------
(* Bounds *)

MaxCountries == 2

MaxN == 41

-----------------------------------------------------------------------------
(* Numbers *)

None == <<>>

Abs(x) == IF x < 0 THEN -x ELSE x

Max(a, b) == IF a >= b THEN a ELSE b

RECURSIVE GCD(_, _)
GCD(a, b) == IF b = 0 THEN a ELSE GCD(b, a % b)

\* float division num / den (den > 0)
Div(num, den) ==
    LET g == GCD(Abs(num), den)
    IN  <<num \div g, den \div g>>

\* round(x, 2): the nearest multiple of 0.01, ties to the even one
Round2(x) ==
    LET n == 100 * x[1]
        q == n \div x[2]
        r == n % x[2]
        h == IF 2 * r < x[2] THEN q
             ELSE IF 2 * r > x[2] THEN q + 1
             ELSE IF q % 2 = 0 THEN q ELSE q + 1
    IN  Div(h, 100)

\* bool(x) of an Optional[float]
Truthy(x) == x # None /\ x[1] # 0

RECURSIVE Sum(_)
Sum(s) == IF s = <<>> THEN 0 ELSE Head(s) + Sum(Tail(s))

RECURSIVE Insert(_, _)
Insert(x, s) ==
    IF s = <<>> THEN <<x>>
    ELSE IF x <= Head(s) THEN <<x>> \o s
    ELSE <<Head(s)>> \o Insert(x, Tail(s))

RECURSIVE Sorted(_)
Sorted(s) == IF s = <<>> THEN <<>> ELSE Insert(Head(s), Sorted(Tail(s)))

-----------------------------------------------------------------------------
(* Static configuration *)

COUNTRIES == {"DEU", "POL"}

PARAMETERS == {"pm25", "no2"}

OkStatus == {"200", "201", "204"}

-----------------------------------------------------------------------------
(* The measurements API *)

Num(v) == [kind |-> "num", value |-> v]
NullValue == [kind |-> "null", value |-> 0]
NoValue == [kind |-> "missing", value |-> 0]
TextValue == [kind |-> "text", value |-> 0]

Timeout == [kind |-> "timeout", results |-> <<>>]
HttpError == [kind |-> "http_error", results |-> <<>>]
NoResults == [kind |-> "no_results", results |-> <<>>]
Ok(rs) == [kind |-> "json", results |-> rs]

Responses ==
    { Timeout, HttpError, NoResults,
      Ok(<<NullValue, NoValue>>),
      Ok(<<Num(0)>>),
      Ok(<<Num(5), Num(0), Num(0), Num(0), Num(0), Num(0), Num(0), Num(0)>>),
      Ok(<<Num(-1), NullValue, Num(0), Num(0)>>),
      Ok(<<Num(3), TextValue>>) }

PatchOutcomes == {"200", "500", "ConnectionError", "ReadTimeout"}

\* outcomes of requests.patch that raise instead of returning a response
PatchRaises == {"ConnectionError", "ReadTimeout"}

\* outcomes in which the destination applied the request
PatchApplied == {"200", "ReadTimeout"}

-----------------------------------------------------------------------------
(* _fetch_parameter_data *)

RECURSIVE Measurements(_)
Measurements(rs) ==
    IF rs = <<>> THEN <<>>
    ELSE IF Head(rs).kind \in {"missing", "null"} THEN Measurements(Tail(rs))
    ELSE <<Head(rs).value>> \o Measurements(Tail(rs))

\* [raised, data]: raised when requests.get, raise_for_status or float() raises
FetchParameterData(resp) ==
    IF resp.kind \in {"timeout", "http_error"}
    THEN [raised |-> TRUE, data |-> <<>>]
    ELSE IF \E k \in 1..Len(resp.results) : resp.results[k].kind = "text"
    THEN [raised |-> TRUE, data |-> <<>>]
    ELSE [raised |-> FALSE, data |-> Measurements(resp.results)]

-----------------------------------------------------------------------------
(* _calculate_average *)

\* s[a:-b] for a, b >= 1
Slice(s, a, b) == SubSeq(s, a + 1, Len(s) - b)

\* mutant: lists of exactly 10 values are trimmed too (>= for >)
CalculateAverage_TrimsAtTen(vs) ==
    IF vs = <<>> THEN None
    ELSE LET sorted_values == Sorted(vs)
             trim_count == Max(1, Len(sorted_values) \div 20)
             trimmed == IF Len(sorted_values) >= 10
                        THEN Slice(sorted_values, trim_count, trim_count)
                        ELSE sorted_values
         IN  IF trimmed # <<>> THEN Div(Sum(trimmed), Len(trimmed)) ELSE None

CalculateAverage(vs) ==
    IF vs = <<>> THEN None
    ELSE LET sorted_values == Sorted(vs)
             trim_count == Max(1, Len(sorted_values) \div 20)
             trimmed == IF Len(sorted_values) > 10
                        THEN Slice(sorted_values, trim_count, trim_count)
                        ELSE sorted_values
         IN  IF trimmed # <<>> THEN Div(Sum(trimmed), Len(trimmed)) ELSE None

-----------------------------------------------------------------------------
(* fetch_country_air_quality *)

NewResult == [avg_pm25 |-> None, avg_no2 |-> None, measurement_count |-> 0]

NotFetched == [raised |-> FALSE, data |-> <<>>]

\* one try block: the average of the data, or the previous value when the
\* fetch raised or returned nothing
Aggregate(fetched, previous) ==
    IF ~fetched.raised /\ fetched.data # <<>>
    THEN CalculateAverage(fetched.data)
    ELSE previous

\* lines 78-89
AfterPm25(result, fetched) ==
    [result EXCEPT !.avg_pm25 = Aggregate(fetched, result.avg_pm25)]

\* mutant: the NO2 block stores its average under the PM2.5 key
AfterNo2_WritesPm25(result, fetched) ==
    [result EXCEPT !.avg_pm25 = Aggregate(fetched, result.avg_pm25)]

\* lines 92-103
AfterNo2(result, fetched) ==
    [result EXCEPT !.avg_no2 = Aggregate(fetched, result.avg_no2)]

-----------------------------------------------------------------------------
(* update_supabase *)

Field(key) == IF key = "air_quality_pm25" THEN "avg_pm25" ELSE "avg_no2"

\* mutant: a null aggregate is written as 0 instead of being left out
UpdateData_ZeroFill(air_quality_data) ==
    [key \in {"air_quality_pm25", "air_quality_no2"}
        |-> IF air_quality_data[Field(key)] = None
            THEN <<0, 1>>
            ELSE Round2(air_quality_data[Field(key)])]

UpdateData(air_quality_data) ==
    [key \in {k \in {"air_quality_pm25", "air_quality_no2"} :
                  air_quality_data[Field(k)] # None}
        |-> Round2(air_quality_data[Field(key)])]

WithLastUpdated(update_data, now) ==
    [key \in DOMAIN update_data \cup {"last_updated"}
        |-> IF key = "last_updated" THEN <<now, 1>> ELSE update_data[key]]

\* PATCH on one row: only the fields named in the body change
ApplyPatch(row, json) ==
    [key \in DOMAIN row |-> IF key \in DOMAIN json THEN json[key] ELSE row[key]]

\* the call returns normally (including the early return without a request)
UpdateReturns(air_quality_data, outcome) ==
    UpdateData(air_quality_data) = <<>> \/ outcome \notin PatchRaises

-----------------------------------------------------------------------------
(* Initial state *)

PreviousRow ==
    [air_quality_pm25 |-> <<42, 1>>, air_quality_no2 |-> <<17, 1>>,
     last_updated |-> <<0, 1>>]

NoEnv == [c \in COUNTRIES |-> [pm25 |-> Timeout, no2 |-> Timeout, update |-> "200"]]

NoFirst == [successful |-> 0, failed |-> 0, dest |-> [c \in COUNTRIES |-> PreviousRow]]

InitEtl ==
    /\ countries = <<>>
    /\ i = 1
    /\ country_code = ""
    /\ successful = 0
    /\ failed = 0
    /\ air_quality = NewResult
    /\ pm25_data = NotFetched
    /\ no2_data = NotFetched
    /\ response = "none"
    /\ patch = <<>>
    /\ dest = [c \in COUNTRIES |-> PreviousRow]
    /\ clock = 0
    /\ log = <<>>
    /\ run = 1
    /\ first = NoFirst

Init ==
    /\ pc = "idle"
    /\ InitEtl
    /\ env = NoEnv
    /\ values = <<>>
    /\ average = None

-----------------------------------------------------------------------------
(* run_etl *)

CountryLists == UNION { [1..n -> COUNTRIES] : n \in 0..MaxCountries }

RunEtl(cs) ==
    /\ pc = "idle"
    /\ countries' = cs
    /\ i' = 1
    /\ successful' = 0
    /\ failed' = 0
    /\ log' = <<>>
    /\ pc' = "loop"
    /\ UNCHANGED <<country_code, air_quality, pm25_data, no2_data, response,
                   patch, dest, clock, run, env, first, values, average>>

\* mutant: the counters live on past the call instead of starting at 0
RunAgain_KeepsCounters ==
    /\ pc = "done"
    /\ run = 1
    /\ first' = [successful |-> successful, failed |-> failed, dest |-> dest]
    /\ run' = 2
    /\ i' = 1
    /\ log' = <<>>
    /\ pc' = "loop"
    /\ UNCHANGED <<countries, country_code, successful, failed, air_quality,
                   pm25_data, no2_data, response, patch, dest, clock, env,
                   values, average>>

\* a second run_etl call with the same argument, after the first has returned
RunAgain ==
    /\ pc = "done"
    /\ run = 1
    /\ first' = [successful |-> successful, failed |-> failed, dest |-> dest]
    /\ run' = 2
    /\ i' = 1
    /\ successful' = 0
    /\ failed' = 0
    /\ log' = <<>>
    /\ pc' = "loop"
    /\ UNCHANGED <<countries, country_code, air_quality, pm25_data, no2_data,
                   response, patch, dest, clock, env, values, average>>

NextCountry ==
    /\ pc = "loop"
    /\ i <= Len(countries)
    /\ country_code' = countries[i]
    /\ log' = Append(log, countries[i])
    /\ air_quality' = NewResult
    /\ pm25_data' = NotFetched
    /\ no2_data' = NotFetched
    /\ response' = "none"
    /\ patch' = <<>>
    /\ pc' = "pm25"
    /\ UNCHANGED <<countries, i, successful, failed, dest, clock, run, env,
                   first, values, average>>

FetchPm25(resp) ==
    /\ pc = "pm25"
    /\ pm25_data' = FetchParameterData(resp)
    /\ air_quality' = AfterPm25(air_quality, pm25_data')
    /\ pc' = "no2"
    /\ UNCHANGED <<countries, i, country_code, successful, failed, no2_data,
                   response, patch, dest, clock, log, run, env, first, values,
                   average>>

FetchNo2(resp) ==
    /\ pc = "no2"
    /\ no2_data' = FetchParameterData(resp)
    /\ air_quality' = AfterNo2(air_quality, no2_data')
    /\ pc' = "check"
    /\ UNCHANGED <<countries, i, country_code, successful, failed, pm25_data,
                   response, patch, dest, clock, log, run, env, first, values,
                   average>>

\* mutant: the handler catches a narrower class than what requests.patch raises
Caught_Narrower(outcome) == FALSE

\* `except Exception` at the country boundary: what requests.patch raises is
\* a RequestException, a subclass of Exception
Caught(outcome) == outcome \in PatchRaises

\* mutant: the test is on the result dict itself, which is never empty
HasData_AnyResult(aq) == TRUE

\* line 215
HasData(aq) == Truthy(aq.avg_pm25) \/ Truthy(aq.avg_no2)

\* the then-branch: update_supabase, then successful += 1, or the handler
UpdateSupabase(outcome) ==
    /\ pc = "check"
    /\ HasData(air_quality)
    /\ LET update_data == UpdateData(air_quality)
           sent == update_data # <<>>
           json == WithLastUpdated(update_data, clock + 1)
       IN  /\ clock' = IF sent THEN clock + 1 ELSE clock
           /\ patch' = IF sent
                       THEN <<[region_code |-> country_code, json |-> json]>>
                       ELSE <<>>
           /\ response' = IF sent THEN outcome ELSE "none"
           /\ dest' = IF sent /\ outcome \in PatchApplied
                      THEN [dest EXCEPT
                               ![country_code] = ApplyPatch(dest[country_code], json)]
                      ELSE dest
    /\ IF UpdateReturns(air_quality, outcome)
       THEN successful' = successful + 1 /\ failed' = failed /\ pc' = "loop"
       ELSE IF Caught(outcome)
       THEN successful' = successful /\ failed' = failed + 1 /\ pc' = "loop"
       ELSE successful' = successful /\ failed' = failed /\ pc' = "crashed"
    /\ i' = i + 1
    /\ UNCHANGED <<countries, country_code, air_quality, pm25_data, no2_data,
                   log, run, env, first, values, average>>

\* mutant: the else-branch increments the wrong counter
NoData_CountsSuccessful ==
    /\ pc = "check"
    /\ ~HasData(air_quality)
    /\ successful' = successful + 1
    /\ i' = i + 1
    /\ pc' = "loop"
    /\ UNCHANGED <<countries, country_code, failed, air_quality, pm25_data,
                   no2_data, response, patch, dest, clock, log, run, env, first,
                   values, average>>

\* the else-branch
NoData ==
    /\ pc = "check"
    /\ ~HasData(air_quality)
    /\ failed' = failed + 1
    /\ i' = i + 1
    /\ pc' = "loop"
    /\ UNCHANGED <<countries, country_code, successful, air_quality, pm25_data,
                   no2_data, response, patch, dest, clock, log, run, env, first,
                   values, average>>

Summary ==
    /\ pc = "loop"
    /\ i > Len(countries)
    /\ pc' = "done"
    /\ UNCHANGED <<countries, i, country_code, successful, failed, air_quality,
                   pm25_data, no2_data, response, patch, dest, clock, log, run,
                   env, first, values, average>>

Next ==
    \/ \E cs \in CountryLists : RunEtl(cs)
    \/ NextCountry
    \/ \E resp \in Responses : FetchPm25(resp)
    \/ \E resp \in Responses : FetchNo2(resp)
    \/ \E outcome \in PatchOutcomes : UpdateSupabase(outcome)
    \/ NoData
    \/ Summary

Spec == Init /\ [][Next]_vars

-----------------------------------------------------------------------------
(* The same run under weak fairness: every enabled step is eventually taken. *)
(* The inputs are one of each kind of response and outcome.                  *)

FairResponses ==
    { Timeout, Ok(<<NullValue, NoValue>>), Ok(<<Num(0)>>),
      Ok(<<Num(-1), NullValue, Num(0), Num(0)>>) }

FairOutcomes == {"200", "500", "ConnectionError"}

NextFair ==
    \/ \E cs \in CountryLists : RunEtl(cs)
    \/ NextCountry
    \/ \E resp \in FairResponses : FetchPm25(resp)
    \/ \E resp \in FairResponses : FetchNo2(resp)
    \/ \E outcome \in FairOutcomes : UpdateSupabase(outcome)
    \/ NoData
    \/ Summary

FairSpec == Init /\ [][NextFair]_vars /\ WF_vars(NextFair)

-----------------------------------------------------------------------------
(* Two runs in succession against a repeatable environment: each country's  *)
(* measurements and update outcome are fixed before the first run.          *)

FixedResponses ==
    { Timeout, Ok(<<NullValue, NoValue>>), Ok(<<Num(0)>>),
      Ok(<<Num(5), Num(0), Num(0), Num(0), Num(0), Num(0), Num(0), Num(0)>>) }

FixedOutcomes == {"200", "500", "ConnectionError"}

InitFixed ==
    /\ pc = "idle"
    /\ InitEtl
    /\ env \in [COUNTRIES -> [pm25 : FixedResponses, no2 : FixedResponses,
                               update : FixedOutcomes]]
    /\ values = <<>>
    /\ average = None

NextFixed ==
    \/ \E cs \in CountryLists : RunEtl(cs)
    \/ NextCountry
    \/ FetchPm25(env[country_code].pm25)
    \/ FetchNo2(env[country_code].no2)
    \/ UpdateSupabase(env[country_code].update)
    \/ NoData
    \/ Summary
    \/ RunAgain

SpecFixed == InitFixed /\ [][NextFixed]_vars

-----------------------------------------------------------------------------
(* _calculate_average called directly on generated value lists *)

Multipliers == {1, 3, 4}

\* n values in -3..7 in an order that depends on m; with a spike, the first
\* value is an extreme reading
Generated(n, m, spike) ==
    [k \in 1..n |-> IF spike /\ k = 1 THEN 1000 ELSE ((k * m) % 11) - 3]

Inputs ==
    { Generated(n, m, spike) : n \in 0..MaxN, m \in Multipliers, spike \in BOOLEAN }
        \cup { [k \in 1..11 |-> k] }

InitAgg ==
    /\ InitEtl
    /\ pc = "agg_call"
    /\ env = NoEnv
    /\ values \in Inputs
    /\ average = None

CalculateAverageCall ==
    /\ pc = "agg_call"
    /\ average' = CalculateAverage(values)
    /\ pc' = "agg_return"
    /\ UNCHANGED <<countries, i, country_code, successful, failed, air_quality,
                   pm25_data, no2_data, response, patch, dest, clock, log, run,
                   env, first, values>>

NextAgg == CalculateAverageCall

SpecAgg == InitAgg /\ [][NextAgg]_vars

-----------------------------------------------------------------------------
(* Properties *)

\* the iteration for country_code has ended
IterationDone == pc \in {"loop", "done"} /\ i > 1

NonNull(aq) == aq.avg_pm25 # None \/ aq.avg_no2 # None

BothNull(aq) == aq.avg_pm25 = None /\ aq.avg_no2 = None

\* the step that leaves line 215, by either branch
Decides == pc = "check" /\ pc' # "check"

\* C1: for every processed country with at least one non-null aggregate,
\* whatever number it holds, a PATCH keyed by the country's code has been
\* issued in its iteration.
C1_PatchIssuedWhenNonNull ==
    (IterationDone /\ NonNull(air_quality))
        => (patch # <<>> /\ patch[1].region_code = country_code)

\* C2: a partial update that is answered with a status other than 200/201/204
\* or that fails counts the country as failed and not as successful, and
\* successful is incremented only when the record was actually updated.
C2_UnsuccessfulUpdateCountsFailed ==
    [][Decides =>
          /\ (response' \notin OkStatus \cup {"none"})
                => (failed' = failed + 1 /\ successful' = successful)
          /\ (successful' = successful + 1)
                => (response' \in OkStatus
                    /\ dest'[country_code] # dest[country_code])]_vars

\* the measurements the environment holds for country c and parameter p
EnvData(c, p) == FetchParameterData(env[c][p])

FetchesRaise(c) == EnvData(c, "pm25").raised /\ EnvData(c, "no2").raised

HasMeasurements(c) ==
    \E p \in PARAMETERS : ~EnvData(c, p).raised /\ EnvData(c, p).data # <<>>

\* country c has data, and its record shows an update the destination accepted
DataAndSucceedingUpdate(c) ==
    /\ HasMeasurements(c)
    /\ env[c].update \in OkStatus
    /\ dest[c].last_updated # PreviousRow.last_updated

\* exactly one entry of the list is a country whose fetches raise, and every
\* other entry has data and a succeeding update
OneCountryFails ==
    \E k \in 1..Len(countries) :
        /\ FetchesRaise(countries[k])
        /\ \A j \in 1..Len(countries) :
              j # k => (~FetchesRaise(countries[j])
                        /\ DataAndSucceedingUpdate(countries[j]))

C4_NoPatchWhenBothNull ==
    [][(Decides /\ BothNull(air_quality))
          => (/\ patch = <<>>
              /\ patch' = <<>>
              /\ response' = "none"
              /\ failed' = failed + 1
              /\ successful' = successful)]_vars

C4_Witness ==
    /\ IterationDone
    /\ BothNull(air_quality)
    /\ pm25_data.raised
    /\ ~no2_data.raised
    /\ failed >= 1
    /\ patch = <<>>

\* the destination fields whose aggregate is non-null
NonNullFields(aq) ==
    {k \in {"air_quality_pm25", "air_quality_no2"} : aq[Field(k)] # None}

\* C5: every PATCH payload holds exactly the destination fields whose
\* aggregate is non-null plus last_updated, and the step that sends it leaves
\* every field whose aggregate is null, and every other country's row, as it
\* was (never written, never set to zero).
C5_PayloadOnlyNonNullFields ==
    [][Decides =>
          /\ (patch' # <<>>) =>
                (/\ DOMAIN patch'[1].json
                      = NonNullFields(air_quality) \cup {"last_updated"}
                 /\ patch'[1].region_code = country_code)
          /\ \A c \in COUNTRIES :
                \A k \in {"air_quality_pm25", "air_quality_no2"} :
                    (c # country_code \/ k \notin NonNullFields(air_quality))
                        => dest'[c][k] = dest[c][k]]_vars

C5_Witness ==
    /\ IterationDone
    /\ patch # <<>>
    /\ response = "200"
    /\ air_quality.avg_pm25 = None
    /\ air_quality.avg_no2 # None
    /\ DOMAIN patch[1].json = {"air_quality_no2", "last_updated"}
    /\ dest[country_code].air_quality_pm25 = PreviousRow.air_quality_pm25
    /\ dest[country_code].air_quality_no2 # PreviousRow.air_quality_no2

\* the smallest and the largest value of a non-empty list
RECURSIVE Least(_)
Least(s) ==
    IF Len(s) = 1 THEN s[1]
    ELSE LET m == Least(Tail(s)) IN IF s[1] <= m THEN s[1] ELSE m

RECURSIVE Greatest(_)
Greatest(s) ==
    IF Len(s) = 1 THEN s[1]
    ELSE LET m == Greatest(Tail(s)) IN IF s[1] >= m THEN s[1] ELSE m

\* s without one occurrence of v
RECURSIVE Without(_, _)
Without(s, v) ==
    IF s = <<>> THEN <<>>
    ELSE IF Head(s) = v THEN Tail(s)
    ELSE <<Head(s)>> \o Without(Tail(s), v)

\* s after removing its k smallest and its k largest values
RECURSIVE Trimmed(_, _)
Trimmed(s, k) ==
    IF k = 0 \/ s = <<>> THEN s
    ELSE LET t == Without(s, Least(s))
         IN  IF t = <<>> THEN <<>> ELSE Trimmed(Without(t, Greatest(t)), k - 1)

\* the reference trimmed mean, as a pair <<sum, count>> of the kept values
ReferenceKept(s) ==
    IF Len(s) <= 10 THEN s ELSE Trimmed(s, Max(1, Len(s) \div 20))

SameNumber(x, sum, count) == x # None /\ x[1] * count = sum * x[2]

\* C6: _calculate_average is the reference trimmed mean: null for no values,
\* the mean of all values for 1 <= n <= 10, and for n > 10 the mean of the
\* values left after removing max(1, floor(n/20)) from each sorted end; the
\* kept values are never empty for n >= 1.
C6_TrimmedMean ==
    (pc = "agg_return") =>
        IF values = <<>> THEN average = None
        ELSE /\ Len(ReferenceKept(values)) =
                    IF Len(values) <= 10 THEN Len(values)
                    ELSE Len(values) - 2 * Max(1, Len(values) \div 20)
             /\ Len(ReferenceKept(values)) > 0
             /\ SameNumber(average, Sum(ReferenceKept(values)),
                           Len(ReferenceKept(values)))

C6_Witness ==
    /\ pc = "agg_return"
    /\ values = [k \in 1..11 |-> k]
    /\ average = <<6, 1>>

\* a list long enough for two values to go from each end, the spike among them
C6_WitnessLong ==
    /\ pc = "agg_return"
    /\ Len(values) = 40
    /\ values[1] = 1000
    /\ average # None
    /\ average[1] < 10 * average[2]

\* C7: each of avg_pm25 and avg_no2 is null or a non-negative number,
\* whatever numeric values the measurements API returns.
C7_AggregatesNonNegative ==
    /\ air_quality.avg_pm25 # None => air_quality.avg_pm25[1] >= 0
    /\ air_quality.avg_no2 # None => air_quality.avg_no2[1] >= 0

\* what one parameter's fetch alone determines
OwnAverage(fetched) ==
    IF fetched.raised \/ fetched.data = <<>> THEN None
    ELSE Div(Sum(fetched.data), Len(fetched.data))

\* C8: per-parameter isolation: when fetch_country_air_quality returns, each
\* aggregate is what its own parameter's fetch determines (null after a
\* failure), whatever happened to the other parameter, and the function
\* returns instead of raising.
C8_ParameterIsolation ==
    /\ pc # "crashed"
    /\ pc = "no2" =>
          (air_quality.avg_pm25 = OwnAverage(pm25_data) /\ air_quality.avg_no2 = None)
    /\ pc = "check" =>
          /\ air_quality.avg_pm25 = OwnAverage(pm25_data)
          /\ air_quality.avg_no2 = OwnAverage(no2_data)

C8_Witness ==
    /\ pc = "check"
    /\ pm25_data.raised
    /\ air_quality.avg_pm25 = None
    /\ ~no2_data.raised
    /\ air_quality.avg_no2 = <<5, 8>>

\* C9: after a second run over the same list with the same measurements and
\* update outcomes, air_quality_pm25 and air_quality_no2 of every region are
\* what the first run left, and the summary is the same.
C9_Idempotent ==
    (pc = "done" /\ run = 2) =>
        /\ \A c \in COUNTRIES :
              /\ dest[c].air_quality_pm25 = first.dest[c].air_quality_pm25
              /\ dest[c].air_quality_no2 = first.dest[c].air_quality_no2
        /\ successful = first.successful
        /\ failed = first.failed

C9_Witness ==
    /\ pc = "done"
    /\ run = 2
    /\ successful >= 1
    /\ failed >= 1
    /\ \E c \in COUNTRIES :
          /\ dest[c].last_updated # first.dest[c].last_updated
          /\ dest[c].air_quality_pm25 = <<31, 50>>
          /\ first.dest[c].last_updated # PreviousRow.last_updated

\* C10: whatever the fetches and updates do, run_etl reaches the final summary
\* having announced every country once, in list order; at every loop boundary
\* successful + failed is the number of countries processed so far, and the
\* length of the list at the end.
C10_EveryCountryOnce ==
    /\ [](pc # "crashed")
    /\ [](pc = "loop" =>
            (successful + failed = i - 1 /\ log = SubSeq(countries, 1, i - 1)))
    /\ [](pc = "done" =>
            (successful + failed = Len(countries) /\ log = countries))
    /\ (pc = "loop") ~> (pc = "done")

C10_Witness ==
    /\ pc = "done"
    /\ Len(countries) = MaxCountries
    /\ successful >= 1
    /\ failed >= 1
    /\ response = "ConnectionError"

====
